---- MODULE Spec2Model ----
\* Model of the EximGPT backend: the multiplexed chat WebSocket endpoint
\* (src/main.py websocket_endpoint), the connection registry
\* (ConnectionManager), the thread store calls it makes (find_one, insert_one,
\* update_one, delete_one on threads_collection), the REST history endpoints
\* and the Gemini client (src/gemini_service.py).
\*
\* Each action is one await point of the code: the store/inference/transport
\* call completes and the coroutine runs on, atomically, to its next await.
EXTENDS Integers, Sequences, FiniteSets, TLC

\* ------------------------------------------------------------------ bounds
\* Frames a connection may receive before the model stops feeding it.
MaxFrames == 1
\* The same, for the runs of one connection without failures.
MaxSeqFrames == 4
\* The same, for the runs of two connections side by side.
MaxPairFrames == 2
\* Entries the registry may hold when its methods are called in any order.
MaxRegistry == 4

\* ------------------------------------------------------------ JSON values
\* A JSON / Python value is a record [t, v]: t is the type, v the payload.
\* A string is a sequence of tokens (single characters, or longer fixed
\* chunks of text where the code never looks inside them).
Absent == [t |-> "absent", v |-> <<>>]
None == [t |-> "None", v |-> <<>>]
JStr(s) == [t |-> "str", v |-> s]
JNum == [t |-> "num", v |-> <<"5">>]

\* Python truthiness: "", None and a missing key are falsy, 5 is truthy.
Truthy(x) == CASE x.t = "str" -> x.v # <<>>
               [] x.t = "num" -> TRUE
               [] OTHER -> FALSE

\* dict.get(key, default); a missing key gives the default.
Get(parsed, key, default) == IF parsed[key] = Absent THEN default ELSE parsed[key]

\* ------------------------------------------------------- string operations
UpperChars == <<"A","B","C","D","E","F","G","H","I","J","K","L","M",
                "N","O","P","Q","R","S","T","U","V","W","X","Y","Z">>
LowerChars == <<"a","b","c","d","e","f","g","h","i","j","k","l","m",
                "n","o","p","q","r","s","t","u","v","w","x","y","z">>
Whitespace == {" ", "\t", "\n"}

LowerChar(ch) == IF \E i \in 1..26 : UpperChars[i] = ch
                 THEN LowerChars[CHOOSE i \in 1..26 : UpperChars[i] = ch]
                 ELSE ch

\* str.lower()
Lower(s) == [i \in 1..Len(s) |-> LowerChar(s[i])]

RECURSIVE LStrip(_)
LStrip(s) == IF s # <<>> /\ s[1] \in Whitespace THEN LStrip(Tail(s)) ELSE s

RECURSIVE RStrip(_)
RStrip(s) == IF s # <<>> /\ s[Len(s)] \in Whitespace
             THEN RStrip(SubSeq(s, 1, Len(s) - 1)) ELSE s

\* str.strip()
Strip(s) == RStrip(LStrip(s))

\* user_message[:30]
TitleLen == 30
Prefix(s, n) == SubSeq(s, 1, IF Len(s) < n THEN Len(s) ELSE n)

\* --------------------------------------------------------- path operations
\* A URL or path is the sequence of its "/"-separated segments:
\* "/uploads/a.png" is <<"", "uploads", "a.png">>.
UPLOAD_DIR == <<"", "app", "uploads">>

\* image_url.split("/uploads/")[-1]: what follows the last occurrence of
\* "/uploads/", occurrences found left to right without overlap.
RECURSIVE SplitLast(_)
SplitLast(segs) ==
    LET hits == {i \in 2..(Len(segs) - 1) : segs[i] = "uploads"}
    IN IF hits = {} THEN segs
       ELSE LET i == CHOOSE j \in hits : \A k \in hits : j <= k
            IN SplitLast(SubSeq(segs, i + 1, Len(segs)))

\* os.path.join(UPLOAD_DIR, rest): an absolute rest replaces UPLOAD_DIR.
PathJoin(dir, rest) ==
    IF Len(rest) >= 2 /\ rest[1] = "" THEN rest ELSE dir \o rest

\* os.path.basename
Basename(p) == p[Len(p)]

\* f"/uploads/{os.path.basename(image_path)}"
ServedUrl(image_path) == <<"", "uploads", Basename(image_path.v)>>


\* ------------------------------------------------------------------ inputs
Conns == {"A", "B"}
SoloConns == {"A"}

T1 == JStr(<<"t", "1">>)
T2 == JStr(<<"t", "2">>)
English == JStr(<<"English">>)
Hindi == JStr(<<"Hindi">>)

\* " hI " : a padded, mixed-case spelling of the table key "Hi".
PaddedHi == JStr(<<" ", "h", "I", " ">>)
Bye == JStr(<<"b", "y", "e">>)
\* 31 characters, the last one different, so that [:30] cuts something off.
Long31 == JStr([i \in 1..(TitleLen + 1) |-> IF i = TitleLen + 1 THEN "z" ELSE "q"])

\* "/uploads/a.png", the form POST /api/upload returns.
CanonUrl == JStr(<<"", "uploads", "a.png">>)
\* "http://h/uploads/a.png"
FullUrl == JStr(<<"http:", "", "h", "uploads", "a.png">>)

\* "/uploads/": the served prefix with no file name after it.
DirUrl == JStr(<<"", "uploads", "">>)

\* Does the URL have the form "/uploads/<name>" that upload_image returns?
IsUploadUrl(u) ==
    u.t = "str" /\ Len(u.v) = 3 /\ u.v[1] = "" /\ u.v[2] = "uploads" /\ u.v[3] # ""

ObjectFrame(tid, content, image, lang) ==
    [kind |-> "object", threadId |-> tid, content |-> content,
     image |-> image, language |-> lang]

NotJson == [kind |-> "not_json", threadId |-> Absent, content |-> Absent,
            image |-> Absent, language |-> Absent]
NotDict == [kind |-> "not_dict", threadId |-> Absent, content |-> Absent,
            image |-> Absent, language |-> Absent]

\* The frames a client may put on the wire, within the model's alphabet:
\* undecodable ones, objects without a usable threadId, and objects for
\* thread t1 over every content, with and without an image.
Frames ==
    {NotJson, NotDict}
    \cup {ObjectFrame(tid, Absent, image, Absent) :
            tid \in {Absent, JStr(<<>>)}, image \in {Absent, JNum}}
    \cup {ObjectFrame(T1, content, image, Absent) :
            content \in {Absent, PaddedHi, Bye, Long31, JNum},
            image \in {Absent, CanonUrl}}
    \cup {ObjectFrame(T1, content, image, Absent) :
            content \in {Absent, Long31}, image \in {FullUrl, JNum}}
    \cup {ObjectFrame(T1, Long31, Absent, Hindi),
          ObjectFrame(T1, Long31, DirUrl, Absent)}

\* Well-formed text frames on one thread, for the runs without failures.
RaceFrames ==
    {ObjectFrame(T1, content, Absent, Absent) : content \in {PaddedHi, Long31}}

\* A text frame and a frame whose image is a number, both for thread t1.
PairFrames == {ObjectFrame(T1, Long31, Absent, Absent),
               ObjectFrame(T1, Absent, JNum, Absent)}

\* In the runs of two connections racing on thread t1 each connection sends
\* a text of its own, so that the stored messages tell their senders apart.
RaceFramesOf(c) ==
    IF c = "A" THEN {ObjectFrame(T1, PaddedHi, Absent, Absent)}
    ELSE {ObjectFrame(T1, Long31, Absent, Absent)}

\* Text frames for two different threads: connection A sends for either
\* thread, connection B for thread t2.
RouteFramesOf(c) ==
    IF c = "A" THEN {ObjectFrame(T1, PaddedHi, Absent, Absent),
                     ObjectFrame(T2, PaddedHi, Absent, Absent)}
    ELSE {ObjectFrame(T2, PaddedHi, Absent, Absent)}

\* Files present under the upload directory.
ExistingFiles == {UPLOAD_DIR \o <<"a.png">>}
\* Directories present: os.makedirs(UPLOAD_DIR, exist_ok=True) at startup.
\* "/app/uploads/" names the directory as "/app/uploads" does.
ExistingDirs == {UPLOAD_DIR, UPLOAD_DIR \o <<"">>}

\* os.path.exists(path): true of a file and of a directory.
Exists(path) == path \in ExistingFiles \/ path \in ExistingDirs

\* chat_data: the static phrase table, as its (key, value) pairs in iteration
\* order. "HI" folds to the same key as "Hi"; "Bye" has an empty value.
HiValue == JStr(<<"Hello! How can I help you?">>)
chat_data == << <<(<<"H", "i">>), HiValue>>,
                <<(<<"H", "I">>), JStr(<<"HI AGAIN">>)>>,
                <<(<<"B", "y", "e">>), JStr(<<>>)>> >>

\* ---------------------------------------------------------- reply resolver
\* for key in chat_data: if key.lower() == clean_text: ...; break
LocalResponse(clean_text) ==
    LET hits == {i \in 1..Len(chat_data) : Lower(chat_data[i][1]) = clean_text}
    IN IF clean_text = <<>> \/ hits = {} THEN None
       ELSE chat_data[CHOOSE i \in hits : \A k \in hits : i <= k][2]

\* clean_text = user_message.lower().strip() if user_message else ""
CleanText(user_message) ==
    IF Truthy(user_message) THEN Strip(Lower(user_message.v)) ELSE <<>>

\* ----------------------------------------------------------- gemini client
AiText == JStr(<<"AI reply">>)
NoKeyReply == JStr(<<"Error: ", "GEMINI_API_KEY not found in environment variables. Please configure the API key.">>)
EmptyReply == JStr(<<"I didn't receive any message. Please try again.">>)
InitFailReply == JStr(<<"Error: ", "Failed to initialize AI model. Please try again later.">>)
ApiErrorReply(e) == JStr(<<"Sorry, ", "I encountered an error contacting the AI service. Error: ", e>>)
InvalidReply == JStr(<<"Sorry, ", "I received an invalid response from the AI. Please try again.">>)
UnexpectedReply(e) == JStr(<<"Sorry, ", "I encountered an unexpected error while processing your request. Error details: ", e>>)
ImageOpenReply == JStr(<<"Error: ", "Could not open image file. The file may be corrupted or in an unsupported format.">>)
ImageInitFailReply == JStr(<<"Error: ", "Failed to initialize AI model for image processing.">>)
ImageApiErrorReply(e) == JStr(<<"Sorry, ", "I encountered an error processing your image. Error: ", e>>)
ImageUnexpectedReply(e) == JStr(<<"Sorry, ", "I encountered an error processing your image. Error details: ", e>>)
\* main.py's own reply when the call raises
RaisedReply == JStr(<<"Sorry, ", "I encountered an error processing your request. Please try again.">>)

\* str(error) of the exception behind an inference failure
ErrText(outcome) == "<" \o outcome \o ">"

\* What can go wrong in a call once the key and the input are accepted.
TextFailures == {"model_init", "api_error", "invalid_response", "unexpected", "raised"}
ImageFailures == TextFailures \cup {"image_open"}

\* get_gemini_response without its handler around generate_content_async:
\* the remote call's exception leaves the function.
get_gemini_response_unhandled(key, message, outcome) ==
    IF ~key THEN NoKeyReply
    ELSE IF ~Truthy(message) \/ Strip(message.v) = <<>> THEN EmptyReply
    ELSE CASE outcome = "model_init" -> InitFailReply
           [] outcome = "api_error" -> None
           [] outcome = "invalid_response" -> InvalidReply
           [] outcome = "unexpected" -> UnexpectedReply(ErrText(outcome))
           [] outcome = "raised" -> None
           [] OTHER -> AiText

\* get_gemini_response(message, language); outcome is what the remote side
\* does if it is reached. "raised" stands for an exception leaving the call.
get_gemini_response(key, message, outcome) ==
    IF ~key THEN NoKeyReply
    ELSE IF ~Truthy(message) \/ Strip(message.v) = <<>> THEN EmptyReply
    ELSE CASE outcome = "model_init" -> InitFailReply
           [] outcome = "api_error" -> ApiErrorReply(ErrText(outcome))
           [] outcome = "invalid_response" -> InvalidReply
           [] outcome = "unexpected" -> UnexpectedReply(ErrText(outcome))
           [] outcome = "raised" -> None
           [] OTHER -> AiText

\* get_gemini_response_with_image(message, image_path, language)
get_gemini_response_with_image(key, message, outcome) ==
    IF ~key THEN NoKeyReply
    ELSE CASE outcome = "image_open" -> ImageOpenReply
           [] outcome = "model_init" -> ImageInitFailReply
           [] outcome = "api_error" -> ImageApiErrorReply(ErrText(outcome))
           [] outcome = "invalid_response" -> InvalidReply
           [] outcome = "unexpected" -> ImageUnexpectedReply(ErrText(outcome))
           [] outcome = "raised" -> None
           [] OTHER -> AiText

\* ------------------------------------------------------------ thread store
\* find_one({"threadId": tid}): index of the first matching document, or 0.
FindIndex(coll, tid) ==
    LET hits == {i \in 1..Len(coll) : coll[i].threadId = tid}
    IN IF hits = {} THEN 0 ELSE CHOOSE i \in hits : \A k \in hits : i <= k

\* update_one with "$set" in place of "$push": the message replaces the list.
PushMessageSet(coll, tid, doc) ==
    LET i == FindIndex(coll, tid)
    IN IF i = 0 THEN coll
       ELSE [coll EXCEPT ![i].messages = <<doc>>]

\* update_one with the message put at the head of the list, as "$push" with
\* "$position": 0 does.
PushMessageFront(coll, tid, doc) ==
    LET i == FindIndex(coll, tid)
    IN IF i = 0 THEN coll
       ELSE [coll EXCEPT ![i].messages = <<doc>> \o @]

\* update_one({"threadId": tid}, {"$push": {"messages": doc}}): the first
\* matching document gets the message; no match changes nothing.
PushMessage(coll, tid, doc) ==
    LET i == FindIndex(coll, tid)
    IN IF i = 0 THEN coll
       ELSE [coll EXCEPT ![i].messages = Append(@, doc)]

\* update_one that also sets the title from the message pushed.
UpdateOneRetitle(coll, tid, doc, now) ==
    LET i == FindIndex(coll, tid)
    IN IF i = 0 THEN coll
       ELSE [PushMessage(coll, tid, doc) EXCEPT
                ![i].updatedAt = now,
                ![i].title = Prefix(doc.content.v, TitleLen)]

\* update_one called with upsert=True: no match inserts a document made of
\* the filter and the update.
UpdateOneUpsert(coll, tid, doc, now) ==
    LET i == FindIndex(coll, tid)
    IN IF i = 0
       THEN Append(coll, [threadId |-> tid, title |-> <<>>, createdAt |-> now,
                          updatedAt |-> now, messages |-> <<doc>>])
       ELSE [PushMessage(coll, tid, doc) EXCEPT ![i].updatedAt = now]

\* update_one({"threadId": tid}, {"$push": {"messages": doc},
\*                                "$set": {"updatedAt": now}}): no upsert,
\* so no match changes nothing and is no error.
UpdateOne(coll, tid, doc, now) ==
    LET i == FindIndex(coll, tid)
    IN IF i = 0 THEN coll
       ELSE [PushMessage(coll, tid, doc) EXCEPT ![i].updatedAt = now]

\* delete_one({"threadId": tid}): the first matching document is removed.
DeleteOne(coll, tid) ==
    LET i == FindIndex(coll, tid)
    IN IF i = 0 THEN coll
       ELSE SubSeq(coll, 1, i - 1) \o SubSeq(coll, i + 1, Len(coll))

\* list.pop(0) in place of list.remove(x): the oldest entry goes.
RemoveHead(seq, x) == Tail(seq)

\* list.remove(x): the first occurrence goes.
Remove(seq, x) ==
    LET hits == {i \in 1..Len(seq) : seq[i] = x}
        i == CHOOSE j \in hits : \A k \in hits : j <= k
    IN SubSeq(seq, 1, i - 1) \o SubSeq(seq, i + 1, Len(seq))

\* ------------------------------------------------------------------- state
VARIABLES
    threads,             \* threads_collection: the documents, in natural order
    active_connections,  \* manager.active_connections
    GEMINI_API_KEY,      \* is the key set in the environment?
    clock,               \* datetime.utcnow(): the last value a reading returned
    pc,                  \* where each connection's coroutine is suspended
    locals,              \* the loop's local variables, per connection
    recv_log,            \* the frames each connection has received
    sent,                \* the send_text attempts on each connection
    acked,               \* the messages whose store write returned, per connection
    rest                 \* the last REST call and its response

vars == <<threads, active_connections, GEMINI_API_KEY, clock, pc, locals,
          recv_log, sent, acked, rest>>

\* datetime.datetime.utcnow(): every reading is later than the one before.
utcnow == clock + 1

Message(role, content, image) ==
    [role |-> role, content |-> content, image |-> image]

\* A thread an earlier session left behind.
ExistingThread ==
    [threadId |-> T1, title |-> <<"o", "l", "d">>,
     createdAt |-> 0, updatedAt |-> 0,
     messages |-> <<Message("user", JStr(<<"o", "l", "d">>), None),
                    Message("assistant", AiText, None)>>]

\* Lines 185-188: the defaults each iteration starts from.
FreshLocals ==
    [thread_id |-> None, user_message |-> JStr(<<>>), image_path |-> None,
     language |-> English, assistant_reply |-> JStr(<<>>),
     inference |-> "none", db_errors |-> {}, now |-> 0]

NoRest == [op |-> "none", tid |-> None, status |-> 0, removed |-> 0,
           existed |-> FALSE, quiet |-> FALSE, deleted |-> FALSE]

InitCommon ==
    /\ active_connections = <<>>
    /\ clock = 0
    /\ pc = [c \in Conns |-> "connect"]
    /\ locals = [c \in Conns |-> FreshLocals]
    /\ recv_log = [c \in Conns |-> <<>>]
    /\ sent = [c \in Conns |-> <<>>]
    /\ acked = [c \in Conns |-> <<>>]
    /\ rest = NoRest

\* The store is empty or holds a thread of an earlier session; the key may
\* be missing from the environment.
Init ==
    /\ InitCommon
    /\ threads \in {<<>>, <<ExistingThread>>}
    /\ GEMINI_API_KEY \in BOOLEAN

\* An empty store and a configured key.
InitRace ==
    /\ InitCommon
    /\ threads = <<>>
    /\ GEMINI_API_KEY = TRUE

\* ------------------------------------------------------- connection set-up
\* manager.connect: accept, then register.
Connect(c) ==
    /\ pc[c] = "connect"
    /\ active_connections' = Append(active_connections, c)
    /\ pc' = [pc EXCEPT ![c] = "receive"]
    /\ UNCHANGED <<threads, GEMINI_API_KEY, clock, locals, recv_log, sent, acked, rest>>

\* accept() raises: logged, the endpoint returns, nothing was registered.
ConnectFail(c) ==
    /\ pc[c] = "connect"
    /\ pc' = [pc EXCEPT ![c] = "refused"]
    /\ UNCHANGED <<threads, active_connections, GEMINI_API_KEY, clock, locals,
                   recv_log, sent, acked, rest>>

\* Where an endpoint that has returned left off: accept failed ("refused",
\* line 169), the peer disconnected at receive ("closed", line 179), receive
\* failed and the loop broke ("broken", line 182), or a fault reached the
\* outer handlers ("faulted", lines 324-329).
Ended == {"refused", "closed", "broken", "faulted"}

\* The outer handlers (lines 324-329): deregister, and the endpoint returns.
OuterHandler(c) ==
    /\ active_connections' = Remove(active_connections, c)
    /\ pc' = [pc EXCEPT ![c] = "faulted"]

\* ------------------------------------------------------------ receive/parse
\* Lines 190-200 for a frame that decodes to an object.
ParsedLocals(f) ==
    LET image_url == Get(f, "image", None)
    IN [thread_id |-> Get(f, "threadId", None),
        user_message |-> Get(f, "content", JStr(<<>>)),
        image_path |-> IF Truthy(image_url)
                       THEN JStr(PathJoin(UPLOAD_DIR, SplitLast(image_url.v)))
                       ELSE None,
        language |-> Get(f, "language", English),
        assistant_reply |-> JStr(<<>>),
        inference |-> "none", db_errors |-> {}, now |-> 0]

\* image_url.split(...) on a truthy value that is no string: AttributeError,
\* which json.JSONDecodeError does not catch.
ParseFaults(f) ==
    LET image_url == Get(f, "image", None)
    IN Truthy(image_url) /\ image_url.t # "str"

\* isinstance(parsed, dict) without the JSONDecodeError handler's continue
\* for a payload that is no JSON: only the non-object is skipped.
SkipsOnlyNotDict(f) == f.kind = "not_dict"

\* Lines 201-209: a payload that is no JSON, or is JSON but no object, is
\* logged and skipped with continue.
Skips(f) == f.kind # "object"

\* receive_text called again while the reply of the frame before is still
\* to be sent, as if each frame were handled in a task of its own.
ReceiveEarly(c, F, n) ==
    /\ pc[c] \in {"receive", "send_reply"}
    /\ Len(recv_log[c]) < n
    /\ \E f \in F :
        /\ ~Skips(f) /\ ~ParseFaults(f) /\ Truthy(ParsedLocals(f).thread_id)
        /\ recv_log' = [recv_log EXCEPT ![c] = Append(@, f)]
        /\ locals' = [locals EXCEPT ![c] = ParsedLocals(f)]
    /\ pc' = [pc EXCEPT ![c] = "find_one"]
    /\ UNCHANGED <<threads, active_connections, GEMINI_API_KEY, clock, sent,
                   acked, rest>>

\* receive_text returns a frame; the loop runs on to its next await.
Receive(c, F, n) ==
    /\ pc[c] = "receive"
    /\ Len(recv_log[c]) < n
    /\ \E f \in F :
        /\ recv_log' = [recv_log EXCEPT ![c] = Append(@, f)]
        /\ IF Skips(f)
           THEN /\ locals' = [locals EXCEPT ![c] = FreshLocals]
                /\ UNCHANGED <<pc, active_connections>>
           ELSE IF ParseFaults(f)
           THEN /\ locals' = [locals EXCEPT ![c] = FreshLocals]
                /\ OuterHandler(c)
           ELSE /\ locals' = [locals EXCEPT ![c] = ParsedLocals(f)]
                /\ pc' = [pc EXCEPT ![c] =
                            IF Truthy(ParsedLocals(f).thread_id)
                            THEN "find_one" ELSE "send_error"]
                /\ UNCHANGED active_connections
        /\ rest' = IF ~Skips(f) /\ ~ParseFaults(f)
                      /\ Truthy(ParsedLocals(f).thread_id)
                      /\ rest.tid = ParsedLocals(f).thread_id
                   THEN [rest EXCEPT !.quiet = FALSE] ELSE rest
    /\ UNCHANGED <<threads, GEMINI_API_KEY, clock, sent, acked>>

\* receive_text raises WebSocketDisconnect: deregister and return.
ReceiveDisconnect(c) ==
    /\ pc[c] = "receive"
    /\ active_connections' = Remove(active_connections, c)
    /\ pc' = [pc EXCEPT ![c] = "closed"]
    /\ UNCHANGED <<threads, GEMINI_API_KEY, clock, locals, recv_log, sent, acked, rest>>

\* receive_text raises anything else: logged, then break.
ReceiveFail(c) ==
    /\ pc[c] = "receive"
    /\ pc' = [pc EXCEPT ![c] = "broken"]
    /\ UNCHANGED <<threads, active_connections, GEMINI_API_KEY, clock, locals,
                   recv_log, sent, acked, rest>>

\* ------------------------------------------------------------------- sends
\* The reply envelope with the threadId of the connection's first frame, as
\* if thread_id were bound once per connection and not once per frame.
ReplyEnvelopeFirstThread(c) ==
    [threadId |-> recv_log[c][1].threadId, reply |-> locals[c].assistant_reply,
     error |-> Absent]

\* An outbound JSON object, by its keys; Absent marks a key it lacks.
\* json.dumps({"error": "Missing threadId"})
ErrorEnvelope ==
    [threadId |-> Absent, reply |-> Absent, error |-> JStr(<<"Missing threadId">>)]
\* json.dumps({"threadId": thread_id, "reply": assistant_reply})
ReplyEnvelope(c) ==
    [threadId |-> locals[c].thread_id, reply |-> locals[c].assistant_reply,
     error |-> Absent]

SendKinds == {"disconnect", "other"}

\* Lines 214-221: the error envelope goes out, then continue.
SendError(c) ==
    /\ pc[c] = "send_error"
    /\ sent' = [sent EXCEPT ![c] = Append(@, [envelope |-> ErrorEnvelope, result |-> "ok"])]
    /\ pc' = [pc EXCEPT ![c] = "receive"]
    /\ UNCHANGED <<threads, active_connections, GEMINI_API_KEY, clock, locals,
                   recv_log, acked, rest>>

\* The send raises; except Exception (line 219) logs it, then continue.
SendErrorFail(c) ==
    /\ pc[c] = "send_error"
    /\ \E k \in SendKinds :
        sent' = [sent EXCEPT ![c] = Append(@, [envelope |-> ErrorEnvelope, result |-> k])]
    /\ pc' = [pc EXCEPT ![c] = "receive"]
    /\ UNCHANGED <<threads, active_connections, GEMINI_API_KEY, clock, locals,
                   recv_log, acked, rest>>

\* Lines 312-317: the reply envelope goes out; the loop iterates.
SendReply(c) ==
    /\ pc[c] = "send_reply"
    /\ sent' = [sent EXCEPT ![c] = Append(@, [envelope |-> ReplyEnvelope(c), result |-> "ok"])]
    /\ pc' = [pc EXCEPT ![c] = "receive"]
    /\ UNCHANGED <<threads, active_connections, GEMINI_API_KEY, clock, locals,
                   recv_log, acked, rest>>

\* The send raises; except Exception (line 318) catches every kind,
\* WebSocketDisconnect included, logs it, and the loop iterates.
SendReplyFail(c) ==
    /\ pc[c] = "send_reply"
    /\ \E k \in SendKinds :
        sent' = [sent EXCEPT ![c] = Append(@, [envelope |-> ReplyEnvelope(c), result |-> k])]
    /\ pc' = [pc EXCEPT ![c] = "receive"]
    /\ UNCHANGED <<threads, active_connections, GEMINI_API_KEY, clock, locals,
                   recv_log, acked, rest>>

\* ------------------------------------------------- step 2: choose the reply
\* Lines 260-283, from the end of the user-persist step to the next await.
\* user_message.lower() on a truthy value that is no string raises
\* AttributeError outside every inner try: the outer handler takes it.
\* raised: the parts of step 1 that raised (logged at line 254).
ResolveStep(c, raised) ==
    LET um == locals[c].user_message
        image_path == locals[c].image_path
        local_response == LocalResponse(CleanText(um))
    IN IF Truthy(um) /\ um.t # "str"
       THEN /\ OuterHandler(c)
            /\ locals' = [locals EXCEPT ![c].db_errors = raised]
            /\ UNCHANGED clock
       ELSE /\ UNCHANGED active_connections
            /\ IF Truthy(local_response)
               THEN /\ locals' = [locals EXCEPT ![c].assistant_reply = local_response,
                                                ![c].inference = "static",
                                                ![c].db_errors = raised,
                                                ![c].now = utcnow]
                    /\ clock' = utcnow
                    /\ pc' = [pc EXCEPT ![c] = "update_one_assistant"]
               ELSE /\ locals' = [locals EXCEPT ![c].db_errors = raised]
                    /\ UNCHANGED clock
                    /\ pc' = [pc EXCEPT ![c] =
                                IF image_path # None /\ Exists(image_path.v)
                                THEN "gemini_image" ELSE "gemini_text"]

\* ------------------------------------------------ step 1: save user message
\* title_text without the [:30] slice
TitleTextUncut(user_message) ==
    IF Truthy(user_message) THEN user_message.v ELSE <<"Image message">>

\* title_text = user_message[:30] if user_message else "Image message"
TitleText(user_message) ==
    IF Truthy(user_message) THEN Prefix(user_message.v, TitleLen)
    ELSE <<"Image message">>

\* message_doc, lines 225-231
MessageDoc(c) ==
    Message("user", locals[c].user_message,
            IF locals[c].image_path # None
            THEN JStr(ServedUrl(locals[c].image_path)) ELSE None)

\* new_thread created with an empty message list, the user message left
\* to a later update.
NewThreadEmpty(c) ==
    [threadId |-> locals[c].thread_id,
     title |-> TitleText(locals[c].user_message),
     createdAt |-> locals[c].now - 1,
     updatedAt |-> locals[c].now,
     messages |-> <<>>]

\* new_thread, lines 239-245
NewThread(c) ==
    [threadId |-> locals[c].thread_id,
     title |-> TitleText(locals[c].user_message),
     createdAt |-> locals[c].now - 1,
     updatedAt |-> locals[c].now,
     messages |-> <<MessageDoc(c)>>]

\* find_one returns. Slicing a truthy non-string raises TypeError, which
\* the step's except Exception logs; the cycle goes on to step 2.
\* new_thread reads the clock twice (createdAt, then updatedAt), the update
\* of an existing thread once.
FindOne(c) ==
    /\ pc[c] = "find_one"
    /\ LET um == locals[c].user_message
       IN IF Truthy(um) /\ um.t # "str"
          THEN ResolveStep(c, {"title_text"})
          ELSE /\ pc' = [pc EXCEPT ![c] =
                           IF FindIndex(threads, locals[c].thread_id) = 0
                           THEN "insert_one" ELSE "update_one_user"]
               /\ LET absent == FindIndex(threads, locals[c].thread_id) = 0
                      reading == IF absent THEN utcnow + 1 ELSE utcnow
                  IN /\ locals' = [locals EXCEPT ![c].now = reading]
                     /\ clock' = reading
               /\ UNCHANGED active_connections
    /\ UNCHANGED <<threads, GEMINI_API_KEY, recv_log, sent, acked, rest>>

\* find_one raises: logged, on to step 2.
FindOneFail(c) ==
    /\ pc[c] = "find_one"
    /\ ResolveStep(c, {"find_one"})
    /\ UNCHANGED <<threads, GEMINI_API_KEY, recv_log, sent, acked, rest>>

\* insert_one(new_thread) returns.
InsertOne(c) ==
    /\ pc[c] = "insert_one"
    /\ threads' = Append(threads, NewThread(c))
    /\ acked' = [acked EXCEPT ![c] = Append(@, MessageDoc(c))]
    /\ ResolveStep(c, {})
    /\ UNCHANGED <<GEMINI_API_KEY, recv_log, sent, rest>>

InsertOneFail(c) ==
    /\ pc[c] = "insert_one"
    /\ ResolveStep(c, {"insert_one"})
    /\ UNCHANGED <<threads, GEMINI_API_KEY, recv_log, sent, acked, rest>>

\* update_one($push message_doc) returns.
UpdateOneUser(c) ==
    /\ pc[c] = "update_one_user"
    /\ threads' = UpdateOne(threads, locals[c].thread_id, MessageDoc(c), locals[c].now)
    /\ acked' = [acked EXCEPT ![c] = Append(@, MessageDoc(c))]
    /\ ResolveStep(c, {})
    /\ UNCHANGED <<GEMINI_API_KEY, recv_log, sent, rest>>

UpdateOneUserFail(c) ==
    /\ pc[c] = "update_one_user"
    /\ ResolveStep(c, {"update_one_user"})
    /\ UNCHANGED <<threads, GEMINI_API_KEY, recv_log, sent, acked, rest>>

\* ------------------------------------------------------- the inference call
\* Blank(message): not message or not message.strip()
Blank(message) == ~Truthy(message) \/ Strip(message.v) = <<>>

\* The call returns without a remote failure: the generated text, or one of
\* the client's early returns (no key, blank text).
GeminiText(c) ==
    /\ pc[c] = "gemini_text"
    /\ locals' = [locals EXCEPT
          ![c].assistant_reply =
              get_gemini_response(GEMINI_API_KEY, locals[c].user_message, "ok"),
          ![c].inference = IF ~GEMINI_API_KEY THEN "no_key"
                           ELSE IF Blank(locals[c].user_message) THEN "blank"
                           ELSE "ok",
          ![c].now = utcnow]
    /\ clock' = utcnow
    /\ pc' = [pc EXCEPT ![c] = "update_one_assistant"]
    /\ UNCHANGED <<threads, active_connections, GEMINI_API_KEY, recv_log,
                   sent, acked, rest>>

\* The remote side is reached and fails; an exception that leaves the call
\* is caught at line 284 and replaced by main.py's own apology.
GeminiTextFail(c) ==
    /\ pc[c] = "gemini_text"
    /\ GEMINI_API_KEY /\ ~Blank(locals[c].user_message)
    /\ \E o \in TextFailures :
        LET r == get_gemini_response(GEMINI_API_KEY, locals[c].user_message, o)
        IN locals' = [locals EXCEPT
              ![c].assistant_reply = IF r = None THEN RaisedReply ELSE r,
              ![c].inference = o,
              ![c].now = utcnow]
    /\ clock' = utcnow
    /\ pc' = [pc EXCEPT ![c] = "update_one_assistant"]
    /\ UNCHANGED <<threads, active_connections, GEMINI_API_KEY, recv_log,
                   sent, acked, rest>>

\* The multimodal call returns without a failure past its own checks; a
\* path that is a directory cannot be opened as an image.
GeminiImage(c) ==
    /\ pc[c] = "gemini_image"
    /\ ~GEMINI_API_KEY \/ locals[c].image_path.v \in ExistingFiles
    /\ locals' = [locals EXCEPT
          ![c].assistant_reply =
              get_gemini_response_with_image(GEMINI_API_KEY, locals[c].user_message, "ok"),
          ![c].inference = IF ~GEMINI_API_KEY THEN "no_key" ELSE "ok",
          ![c].now = utcnow]
    /\ clock' = utcnow
    /\ pc' = [pc EXCEPT ![c] = "update_one_assistant"]
    /\ UNCHANGED <<threads, active_connections, GEMINI_API_KEY, recv_log,
                   sent, acked, rest>>

GeminiImageFail(c) ==
    /\ pc[c] = "gemini_image"
    /\ GEMINI_API_KEY
    /\ \E o \in (IF locals[c].image_path.v \in ExistingFiles
                  THEN ImageFailures ELSE {"image_open"}) :
        LET r == get_gemini_response_with_image(GEMINI_API_KEY, locals[c].user_message, o)
        IN locals' = [locals EXCEPT
              ![c].assistant_reply = IF r = None THEN RaisedReply ELSE r,
              ![c].inference = o,
              ![c].now = utcnow]
    /\ clock' = utcnow
    /\ pc' = [pc EXCEPT ![c] = "update_one_assistant"]
    /\ UNCHANGED <<threads, active_connections, GEMINI_API_KEY, recv_log,
                   sent, acked, rest>>

\* -------------------------------------------- step 3: save assistant message
\* assistant_doc with the reply cut to its first chunk, as a store-side
\* length limit on the content would leave it.
AssistantDocCut(c) ==
    Message("assistant", JStr(Prefix(locals[c].assistant_reply.v, 1)), None)

\* assistant_doc, lines 294-298
AssistantDoc(c) == Message("assistant", locals[c].assistant_reply, None)

UpdateOneAssistant(c) ==
    /\ pc[c] = "update_one_assistant"
    /\ threads' = UpdateOne(threads, locals[c].thread_id, AssistantDoc(c), locals[c].now)
    /\ acked' = [acked EXCEPT ![c] = Append(@, AssistantDoc(c))]
    /\ pc' = [pc EXCEPT ![c] = "send_reply"]
    /\ UNCHANGED <<active_connections, GEMINI_API_KEY, clock, locals, recv_log, sent, rest>>

UpdateOneAssistantFail(c) ==
    /\ pc[c] = "update_one_assistant"
    /\ locals' = [locals EXCEPT ![c].db_errors = @ \cup {"update_one_assistant"}]
    /\ pc' = [pc EXCEPT ![c] = "send_reply"]
    /\ UNCHANGED <<threads, active_connections, GEMINI_API_KEY, clock,
                   recv_log, sent, acked, rest>>

\* ------------------------------------------------------------ REST history
\* Is a connection between its find_one and its send for thread tid?
InCycle(c, tid) ==
    /\ pc[c] \notin {"connect", "receive", "send_error"} \cup Ended
    /\ locals[c].thread_id = tid

\* GET /api/thread/{thread_id}: 404 when find_one gives nothing.
get_thread(tid) ==
    /\ rest' = [op |-> "get", tid |-> tid,
                status |-> IF FindIndex(threads, tid) = 0 THEN 404 ELSE 200,
                removed |-> 0,
                existed |-> FindIndex(threads, tid) # 0,
                quiet |-> rest.quiet /\ rest.tid = tid,
                deleted |-> rest.deleted]
    /\ UNCHANGED <<threads, active_connections, GEMINI_API_KEY, clock, pc, locals,
                   recv_log, sent, acked>>

\* DELETE /api/thread/{thread_id}: 404 when deleted_count is 0.
delete_thread(tid) ==
    /\ threads' = DeleteOne(threads, tid)
    /\ rest' = [op |-> "delete", tid |-> tid,
                status |-> IF Len(threads') = Len(threads) THEN 404 ELSE 200,
                removed |-> Len(threads) - Len(threads'),
                existed |-> FindIndex(threads, tid) # 0,
                quiet |-> /\ Len(threads') # Len(threads)
                          /\ \A c \in Conns : ~InCycle(c, tid),
                deleted |-> rest.deleted \/ Len(threads') # Len(threads)]
    /\ UNCHANGED <<active_connections, GEMINI_API_KEY, clock, pc, locals,
                   recv_log, sent, acked>>

\* --------------------------------------------------------- specifications
\* One connection, every frame of the alphabet, every collaborator failure.
Next ==
    \E c \in SoloConns :
        \/ Connect(c) \/ ConnectFail(c)
        \/ Receive(c, Frames, MaxFrames) \/ ReceiveDisconnect(c) \/ ReceiveFail(c)
        \/ SendError(c) \/ SendErrorFail(c)
        \/ FindOne(c) \/ FindOneFail(c)
        \/ InsertOne(c) \/ InsertOneFail(c)
        \/ UpdateOneUser(c) \/ UpdateOneUserFail(c)
        \/ GeminiText(c) \/ GeminiTextFail(c)
        \/ GeminiImage(c) \/ GeminiImageFail(c)
        \/ UpdateOneAssistant(c) \/ UpdateOneAssistantFail(c)
        \/ SendReply(c) \/ SendReplyFail(c)

Spec == Init /\ [][Next]_vars

\* Two connections on one thread and the REST calls, no collaborator failure.
NextRace ==
    \/ \E c \in Conns :
        \/ Connect(c)
        \/ Receive(c, RaceFramesOf(c), MaxFrames) \/ ReceiveDisconnect(c)
        \/ FindOne(c) \/ InsertOne(c) \/ UpdateOneUser(c)
        \/ GeminiText(c)
        \/ UpdateOneAssistant(c)
        \/ SendReply(c)
    \/ \E tid \in {T1} : get_thread(tid) \/ delete_thread(tid)

SpecRace == InitRace /\ [][NextRace]_vars

\* One connection sending a longer sequence of frames, no collaborator
\* failure, no other writer.
NextSeq ==
    \E c \in SoloConns :
        \/ Connect(c)
        \/ Receive(c, RaceFrames, MaxSeqFrames) \/ ReceiveDisconnect(c)
        \/ FindOne(c) \/ InsertOne(c) \/ UpdateOneUser(c)
        \/ GeminiText(c)
        \/ UpdateOneAssistant(c)
        \/ SendReply(c)

SpecSeq == InitRace /\ [][NextSeq]_vars

\* Two connections, several frames each, on one thread: transport failures
\* and faulting frames, no store or inference failure.
NextPair ==
    \E c \in Conns :
        \/ Connect(c)
        \/ Receive(c, PairFrames, MaxPairFrames)
        \/ ReceiveDisconnect(c) \/ ReceiveFail(c)
        \/ FindOne(c) \/ InsertOne(c) \/ UpdateOneUser(c)
        \/ GeminiText(c)
        \/ UpdateOneAssistant(c)
        \/ SendReply(c)

SpecPair == InitRace /\ [][NextPair]_vars

\* Two connections, each sending frames for either of two threads; nothing
\* fails.
NextRoute ==
    \E c \in Conns :
        \/ Connect(c)
        \/ Receive(c, RouteFramesOf(c), MaxPairFrames)
        \/ FindOne(c) \/ InsertOne(c) \/ UpdateOneUser(c)
        \/ UpdateOneAssistant(c)
        \/ SendReply(c)

SpecRoute == InitRace /\ [][NextRoute]_vars

\* One connection and the REST delete on its thread; the insert of the
\* user-persist step may fail.
NextDelete ==
    \/ \E c \in SoloConns :
        \/ Connect(c)
        \/ Receive(c, RaceFrames, MaxFrames)
        \/ FindOne(c) \/ InsertOne(c) \/ InsertOneFail(c) \/ UpdateOneUser(c)
        \/ GeminiText(c)
        \/ UpdateOneAssistant(c)
        \/ SendReply(c)
    \/ \E tid \in {T1} : delete_thread(tid)

SpecDelete == Init /\ [][NextDelete]_vars

\* ------------------------------------------------- the registry on its own
\* ConnectionManager.connect(websocket): accept, then append.
manager_connect(c) ==
    /\ Len(active_connections) < MaxRegistry
    /\ active_connections' = Append(active_connections, c)
    /\ UNCHANGED <<threads, GEMINI_API_KEY, clock, pc, locals, recv_log,
                   sent, acked, rest>>

\* ConnectionManager.disconnect(websocket): list.remove, which raises
\* ValueError when the websocket is not in the list; pc records that the
\* call for c raised.
manager_disconnect(c) ==
    /\ IF \E i \in 1..Len(active_connections) : active_connections[i] = c
       THEN /\ active_connections' = Remove(active_connections, c)
            /\ UNCHANGED pc
       ELSE /\ pc' = [pc EXCEPT ![c] = "value_error"]
            /\ UNCHANGED active_connections
    /\ UNCHANGED <<threads, GEMINI_API_KEY, clock, locals, recv_log,
                   sent, acked, rest>>

\* The methods of the registry called in any order, for any connection.
NextRegistry ==
    \E c \in Conns : manager_connect(c) \/ manager_disconnect(c)

SpecRegistry == InitRace /\ [][NextRegistry]_vars

\* ------------------------------------------------------------------ claims
\* What a lookup of tid returns: the first matching thread's messages.
ThreadMessages(tid) ==
    IF FindIndex(threads, tid) = 0 THEN <<>>
    ELSE threads[FindIndex(threads, tid)].messages

Registered(c) == \E i \in 1..Len(active_connections) : active_connections[i] = c

\* No connection is inside a cycle.
AllIdle == \A c \in Conns : pc[c] \in {"connect", "receive"} \cup Ended

RECURSIVE SumAcked(_)
SumAcked(S) ==
    IF S = {} THEN 0
    ELSE LET c == CHOOSE x \in S : TRUE
         IN Len(acked[c]) + SumAcked(S \ {c})

\* C1: two connections run complete cycles on the same threadId, no store
\* call fails and nothing is deleted; once every cycle has finished, a
\* lookup of the thread returns as many messages as both connections
\* appended together.
C1_NoMessageLost ==
    (AllIdle /\ ~rest.deleted) => Len(ThreadMessages(T1)) = SumAcked(Conns)

\* The user and assistant message of the k-th cycle of connection c, as the
\* frame received and the envelope sent show them.
CycleMessages(c, k) ==
    << Message("user", Get(recv_log[c][k], "content", JStr(<<>>)), None),
       Message("assistant", sent[c][k].envelope.reply, None) >>

RECURSIVE SubmittedMessages(_, _)
SubmittedMessages(c, k) ==
    IF k = 0 THEN <<>>
    ELSE SubmittedMessages(c, k - 1) \o CycleMessages(c, k)

\* C2: one connection sends N valid envelopes for one thread, no store
\* failure, no other writer. Between cycles the thread holds exactly
\* user_1, assistant_1, ..., user_N, assistant_N in submission order, so
\* every cycle on the existing thread adds exactly two messages.
C2_SequentialAppends ==
    \A c \in SoloConns :
        pc[c] \in {"receive"} \cup Ended =>
            /\ Len(sent[c]) = Len(recv_log[c])
            /\ Len(ThreadMessages(T1)) = 2 * Len(recv_log[c])
            /\ ThreadMessages(T1) = SubmittedMessages(c, Len(recv_log[c]))

\* Three cycles done on the thread the first one created: six messages.
C2_Witness ==
    /\ pc["A"] = "receive"
    /\ Len(recv_log["A"]) = 3
    /\ Len(ThreadMessages(T1)) = 6
    /\ recv_log["A"][2] # recv_log["A"][3]

Last(seq) == seq[Len(seq)]
LastFrame(c) == Last(recv_log[c])

\* An envelope as the protocol defines it: a string threadId, a string
\* content if any, and as image, if any, a URL the upload endpoint returned.
ValidEnvelope(f) ==
    /\ f.kind = "object"
    /\ f.threadId.t = "str" /\ f.threadId.v # <<>>
    /\ f.content.t \in {"absent", "str"}
    /\ f.image = Absent \/ IsUploadUrl(f.image)
    /\ f.language.t \in {"absent", "str"}

\* C3: a valid envelope names a thread the store lacks; when the insert of
\* the user-persist step succeeds the store holds a thread with that
\* threadId whose first message is the user message with the submitted
\* content and image reference, titled with the first 30 characters of the
\* content, or with the placeholder when the content is empty.
C3_NewThreadStored ==
    [][\A c \in SoloConns :
        (pc[c] = "insert_one" /\ threads' # threads /\ ValidEnvelope(LastFrame(c))) =>
            \E i \in 1..Len(threads') :
                LET th == threads'[i]
                    f == LastFrame(c)
                    content == Get(f, "content", JStr(<<>>))
                IN /\ th.threadId = f.threadId
                   /\ th.messages[1] =
                        Message("user", content,
                                IF f.image = Absent THEN None ELSE f.image)
                   /\ IF content.v = <<>>
                      THEN th.title = <<"Image message">>
                      ELSE /\ Len(th.title) = (IF Len(content.v) < 30
                                               THEN Len(content.v) ELSE 30)
                           /\ \A j \in 1..Len(th.title) : th.title[j] = content.v[j]
      ]_vars

\* A 31-character content with an uploaded image created the thread: the
\* title is cut to 30 characters and the image reference is stored.
C3_Witness ==
    /\ recv_log["A"] = <<ObjectFrame(T1, Long31, CanonUrl, Absent)>>
    /\ pc["A"] = "gemini_image"
    /\ Len(threads) = 1
    /\ Len(threads[1].title) = 30
    /\ threads[1].messages[1].image = CanonUrl

MissingTid(f) == f.kind = "object" /\ ~Truthy(Get(f, "threadId", None))
HasTid(f) == f.kind = "object" /\ Truthy(Get(f, "threadId", None))
IsErrorSend(s) == s.envelope = ErrorEnvelope
IsReplySend(s) == s.envelope.reply # Absent /\ s.envelope.error = Absent

\* C4: every received object without a usable threadId gets the
\* {"error": "Missing threadId"} envelope sent (or is about to), makes no
\* store call, and does not end the loop, whether or not that send fails.
C4_MissingThreadId ==
    \A c \in SoloConns :
        /\ Len(SelectSeq(sent[c], IsErrorSend))
             + (IF pc[c] = "send_error" THEN 1 ELSE 0)
             = Len(SelectSeq(recv_log[c], MissingTid))
        /\ (recv_log[c] # <<>> /\ MissingTid(LastFrame(c))) =>
              pc[c] \in {"send_error", "receive", "closed", "broken"}

\* C5: between frames, every received object with a non-empty threadId has
\* had a {threadId, reply} envelope with a string reply sent for it, in
\* order, whatever its other fields hold and whatever failed on the way.
C5_AlwaysAReply ==
    \A c \in SoloConns :
        pc[c] \in {"receive", "closed", "broken", "faulted"} =>
            LET asked == SelectSeq(recv_log[c], HasTid)
                told == SelectSeq(sent[c], IsReplySend)
            IN /\ Len(told) = Len(asked)
               /\ \A k \in 1..Len(told) :
                    /\ told[k].envelope.threadId = asked[k].threadId
                    /\ told[k].envelope.reply.t = "str"

\* The inference outcomes that are failures of the client.
InferenceFailures == ImageFailures \cup {"no_key"}
\* Those the client handles that come with an exception, whose text is the
\* failure detail.
WithException == {"model_init", "api_error", "unexpected", "image_open"}

Embeds(r, d) == \E i \in 1..Len(r.v) : r.v[i] = d

C7_StaticPhrase ==
    \A c \in SoloConns :
        LET um == locals[c].user_message
            hits == IF um.t = "str"
                    THEN {i \in 1..Len(chat_data) :
                            Lower(chat_data[i][1]) = Strip(Lower(um.v))}
                    ELSE {}
        IN (hits # {} /\ pc[c] \in {"gemini_text", "gemini_image",
                                    "update_one_assistant", "send_reply"}) =>
              /\ pc[c] \notin {"gemini_text", "gemini_image"}
              /\ locals[c].inference = "static"
              /\ locals[c].assistant_reply =
                    chat_data[CHOOSE i \in hits : \A k \in hits : i <= k][2]

\* C8: a delete answers 404 exactly when the thread was absent and then
\* removes nothing; after a delete that removed the thread while no cycle
\* on it was in flight, a fetch made before any new cycle on it starts
\* answers 404.
C8_DeleteThenFetch ==
    /\ rest.op = "delete" =>
          /\ rest.status = 404 <=> ~rest.existed
          /\ rest.status = 404 => rest.removed = 0
    /\ (rest.op = "get" /\ rest.quiet) => rest.status = 404

\* C9: a connection whose loop has ended is not in the registry.
C9_NeverRegisteredDead ==
    \A c \in SoloConns :
        pc[c] \in {"closed", "broken", "faulted"} => ~Registered(c)

\* C10: when the send of the reply envelope fails with something other than
\* a disconnect the loop goes on to receive, the connection registered;
\* when it fails with a disconnect signal the loop ends and the connection
\* is deregistered.
C10_SendFailure ==
    [][\A c \in SoloConns :
        (pc[c] = "send_reply" /\ pc'[c] # "send_reply") =>
            /\ Last(sent'[c]).result = "other" =>
                  (pc'[c] = "receive" /\ Registered(c)')
            /\ Last(sent'[c]).result = "disconnect" =>
                  (pc'[c] \in Ended /\ ~Registered(c)')
      ]_vars

\* The store calls of the user-persist step.
UserPersistParts == {"find_one", "insert_one", "update_one_user"}
AfterSend == {"receive", "closed", "broken"}

\* C11: a cycle whose user-persist step failed at a store call still
\* computes a reply, still attempts the assistant append and still sends the
\* reply; a cycle whose assistant append failed still sends the reply; in
\* both cases the loop is at receive afterwards, the connection registered.
C11_StoreFailureTolerated ==
    \A c \in SoloConns :
        LET failed == locals[c].db_errors
            replied == /\ sent[c] # <<>>
                       /\ Last(sent[c]).envelope = ReplyEnvelope(c)
                       /\ locals[c].assistant_reply.t = "str"
        IN /\ failed \cap UserPersistParts # {} =>
                /\ pc[c] \in {"gemini_text", "gemini_image",
                              "update_one_assistant", "send_reply"} \cup AfterSend
                /\ pc[c] \in {"send_reply"} \cup AfterSend =>
                      \/ "update_one_assistant" \in failed
                      \/ acked[c] # <<>> /\ Last(acked[c]) = AssistantDoc(c)
                /\ pc[c] \in AfterSend => replied
                /\ pc[c] = "receive" => Registered(c)
           /\ "update_one_assistant" \in failed =>
                /\ pc[c] \in {"send_reply"} \cup AfterSend
                /\ pc[c] \in AfterSend => replied
                /\ pc[c] = "receive" => Registered(c)

\* C12: the step that receives a payload that is no JSON, or is JSON but no
\* object, sends nothing, makes no store call (the store and the pending
\* call of the connection are as before), and leaves the connection
\* registered with its loop at receive.
C12_MalformedSkipped ==
    [][\A c \in SoloConns :
        (recv_log'[c] # recv_log[c] /\ Last(recv_log'[c]).kind # "object") =>
            /\ sent' = sent
            /\ threads' = threads /\ acked' = acked
            /\ pc'[c] = "receive"
            /\ Registered(c)'
            /\ active_connections' = active_connections
      ]_vars

\* A JSON array was received: nothing sent, nothing stored, still registered
\* and waiting for the next frame.
C12_Witness ==
    /\ recv_log["A"] = <<NotDict>>
    /\ pc["A"] = "receive"
    /\ Registered("A")
    /\ sent["A"] = <<>>
    /\ acked["A"] = <<>>

\* The frames of a connection that started a cycle, and whether one is in
\* flight (between its decode and the end of its send).
StartsCycle(f) == HasTid(f) /\ ~ParseFaults(f)
InFlight(c) == pc[c] \in {"find_one", "insert_one", "update_one_user",
                          "gemini_text", "gemini_image",
                          "update_one_assistant", "send_reply"}

\* C13: on every connection the cycles run one after the other: every cycle
\* started has had its send, except the one in flight, so a frame is read
\* only after the send of the frame before; this holds while the cycles of
\* the other connection are at any of their store and inference calls.
C13_SequentialPerConnection ==
    \A c \in Conns :
        /\ Len(sent[c]) + (IF InFlight(c) THEN 1 ELSE 0)
             = Len(SelectSeq(recv_log[c], StartsCycle))
        /\ \A k \in 1..Len(sent[c]) : IsReplySend(sent[c][k])

\* Both connections are inside their second cycle at the same time, each
\* having sent the reply of its first.
C13_Witness ==
    /\ pc["A"] = "gemini_text" /\ pc["B"] = "update_one_user"
    /\ Len(recv_log["A"]) = 2 /\ Len(recv_log["B"]) = 2
    /\ Len(sent["A"]) = 1 /\ Len(sent["B"]) = 1

\* C14: the store never holds two thread documents with the same threadId.
C14_UniqueThreadId ==
    \A i, j \in 1..Len(threads) :
        threads[i].threadId = threads[j].threadId => i = j

\* C15: in every step that deletes nothing, the updatedAt of every stored
\* thread is at least what it was, and a thread whose message sequence grew
\* has the updatedAt that the appending call carried.
C15_UpdatedAtMonotonic ==
    [][Len(threads') >= Len(threads) =>
        \A i \in 1..Len(threads) :
            /\ threads'[i].updatedAt >= threads[i].updatedAt
            /\ threads'[i].messages # threads[i].messages =>
                  \E c \in Conns : threads'[i].updatedAt = locals[c].now
      ]_vars

IsPrefix(s, t) == Len(s) <= Len(t) /\ SubSeq(t, 1, Len(s)) = s

\* C16: a step that deletes a thread leaves every other document as it was;
\* any other step leaves every document with its earlier message sequence
\* as a prefix of the new one, grown by at most the one message the store
\* applied, and the same holds of what a lookup of the thread returns.
C16_AppendOnly ==
    [][IF Len(threads') < Len(threads)
       THEN \E i \in 1..Len(threads) :
               threads' = SubSeq(threads, 1, i - 1)
                            \o SubSeq(threads, i + 1, Len(threads))
       ELSE /\ \A i \in 1..Len(threads) :
                 /\ threads'[i].threadId = threads[i].threadId
                 /\ IsPrefix(threads[i].messages, threads'[i].messages)
                 /\ Len(threads'[i].messages) <= Len(threads[i].messages) + 1
            /\ IsPrefix(ThreadMessages(T1), ThreadMessages(T1)')
      ]_vars

\* One thread holds the four messages of two connections, the second
\* connection's user message stored before the first one's assistant reply.
C16_Witness ==
    /\ Len(threads) = 1
    /\ Len(threads[1].messages) = 4
    /\ Len(acked["A"]) = 2 /\ Len(acked["B"]) = 2
    /\ threads[1].messages[1] = acked["A"][1]
    /\ threads[1].messages[2] = acked["B"][1]
    /\ acked["A"][1] # acked["B"][1]

\* C17: in every stored thread every assistant message comes directly after
\* a user message (the one of its own cycle).
C17_AssistantAfterUser ==
    \A i \in 1..Len(threads) :
        \A k \in 1..Len(threads[i].messages) :
            threads[i].messages[k].role = "assistant" =>
                /\ k > 1
                /\ threads[i].messages[k - 1].role = "user"

\* How often c is in the registry.
Entries(c) == Len(SelectSeq(active_connections, LAMBDA x : x = c))

\* C18: whatever the order of connect and disconnect calls, a connection
\* has at most one entry in the registry and no disconnect call raises.
C18_RegistryIdempotent ==
    \A c \in Conns :
        /\ Entries(c) <= 1
        /\ pc[c] # "value_error"

\* Does the frame carry an image reference whose mapped local path is a
\* file that exists?
ImageFileExists(f) ==
    LET image == Get(f, "image", None)
    IN /\ image.t = "str" /\ image.v # <<>>
       /\ PathJoin(UPLOAD_DIR, SplitLast(image.v)) \in ExistingFiles

\* C19: a cycle that reaches the inference client is at the multimodal call
\* exactly when its frame carries an image reference whose mapped local path
\* exists as a file, and at the text-only call otherwise.
C19_ImagePathChoice ==
    \A c \in SoloConns :
        /\ pc[c] = "gemini_image" => ImageFileExists(LastFrame(c))
        /\ pc[c] = "gemini_text" => ~ImageFileExists(LastFrame(c))

\* The registry without the entries of c.
Others(reg, c) == SelectSeq(reg, LAMBDA x : x # c)

\* C20: a step in which the loop of one connection ends (disconnect at
\* receive, receive failure, or a fault taken by the outer handler) leaves
\* every other connection's registry entries, loop position, local state
\* and traffic as they were.
C20_TerminationIsolated ==
    [][\A c \in Conns :
        (pc[c] \notin Ended /\ pc'[c] \in Ended) =>
            /\ Others(active_connections', c) = Others(active_connections, c)
            /\ \A d \in Conns \ {c} :
                  /\ pc'[d] = pc[d]
                  /\ locals'[d] = locals[d]
                  /\ recv_log'[d] = recv_log[d]
                  /\ sent'[d] = sent[d]
                  /\ acked'[d] = acked[d]
      ]_vars

\* A registered first and faulted on a frame while B, registered second,
\* is inside a cycle: B is still registered and A is gone.
C20_Witness ==
    /\ pc["A"] = "faulted"
    /\ pc["B"] = "gemini_text"
    /\ active_connections = <<"B">>
    /\ recv_log["A"] # <<>> /\ ParseFaults(Last(recv_log["A"]))

\* C21: on every connection the k-th reply envelope sent carries the
\* threadId of the k-th frame that connection received (every frame here
\* starts a cycle), so each reply goes out on the connection its frame came
\* in on, with that frame's threadId, in the order of the frames.
C21_EnvelopeRouting ==
    \A c \in Conns :
        LET started == SelectSeq(recv_log[c], StartsCycle)
        IN /\ Len(sent[c]) <= Len(started)
           /\ \A k \in 1..Len(sent[c]) :
                 /\ IsReplySend(sent[c][k])
                 /\ sent[c][k].envelope.threadId = started[k].threadId

\* A received a frame for t1 and then one for t2 and sent both replies,
\* while B, whose frame names t2, is inside its cycle.
C21_Witness ==
    /\ Len(sent["A"]) = 2
    /\ recv_log["A"][1].threadId = T1 /\ recv_log["A"][2].threadId = T2
    /\ sent["A"][1].envelope.threadId = T1
    /\ sent["A"][2].envelope.threadId = T2
    /\ pc["B"] = "update_one_assistant"
    /\ Len(sent["B"]) = 1

\* C22: the only step that adds a thread document is the insert of a cycle
\* waiting at insert_one, and it adds that cycle's new thread. An update
\* applied while its thread is absent leaves the store as it was and the
\* cycle goes on as after any update; between frames every frame received
\* has had its reply sent.
C22_AppendNeverCreates ==
    [][/\ Len(threads') > Len(threads) =>
            \E c \in SoloConns :
                /\ pc[c] = "insert_one"
                /\ threads' = Append(threads, NewThread(c))
       /\ \A c \in SoloConns :
            (/\ pc[c] \in {"update_one_user", "update_one_assistant"}
             /\ pc'[c] # pc[c]
             /\ FindIndex(threads, locals[c].thread_id) = 0) =>
                /\ threads' = threads
                /\ locals'[c].db_errors = locals[c].db_errors
                /\ pc[c] = "update_one_assistant" => pc'[c] = "send_reply"
                /\ pc[c] = "update_one_user" =>
                      pc'[c] \in {"gemini_text", "update_one_assistant"}
       /\ \A c \in SoloConns :
            pc'[c] = "receive" =>
                /\ Len(sent'[c]) = Len(recv_log'[c])
                /\ \A k \in 1..Len(sent'[c]) : IsReplySend(sent'[c][k])
      ]_vars

\* The thread was deleted before the cycle's assistant append: the store is
\* empty, both appends returned, and the reply went out.
C22_Witness ==
    /\ threads = <<>>
    /\ rest.deleted
    /\ pc["A"] = "receive"
    /\ Len(acked["A"]) = 2
    /\ Len(sent["A"]) = 1 /\ IsReplySend(sent["A"][1])

\* C23: once a cycle has sent its reply, if its assistant append did not
\* fail and its thread is in the store, the last message of that thread is
\* the assistant message whose content is the reply string of the envelope
\* sent; while the reply is still to be sent, it is the string the envelope
\* will carry.
C23_StoredReplyIsSentReply ==
    \A c \in SoloConns :
        LET tid == locals[c].thread_id
            stored == Last(ThreadMessages(tid))
        IN (/\ Truthy(tid)
            /\ "update_one_assistant" \notin locals[c].db_errors
            /\ FindIndex(threads, tid) # 0) =>
              /\ pc[c] = "send_reply" =>
                    /\ stored.role = "assistant"
                    /\ stored.content = ReplyEnvelope(c).reply
              /\ (pc[c] \in AfterSend /\ sent[c] # <<>>) =>
                    /\ stored.role = "assistant"
                    /\ stored.content = Last(sent[c]).envelope.reply

\* A remote call failure: the apology with the error text was appended to
\* the existing thread and the same string was sent.
C23_Witness ==
    /\ pc["A"] = "receive"
    /\ locals["A"].inference = "api_error"
    /\ "update_one_assistant" \notin locals["A"].db_errors
    /\ Len(ThreadMessages(T1)) = 4
    /\ Last(ThreadMessages(T1)).content = ApiErrorReply(ErrText("api_error"))
    /\ Last(sent["A"]).envelope.reply = ApiErrorReply(ErrText("api_error"))

\* C24: every stored thread has at least one message, its first message has
\* role user, and every message has role user or assistant.
C24_FirstMessageIsUser ==
    \A i \in 1..Len(threads) :
        /\ threads[i].messages # <<>>
        /\ threads[i].messages[1].role = "user"
        /\ \A k \in 1..Len(threads[i].messages) :
              threads[i].messages[k].role \in {"user", "assistant"}

\* The cycle created the thread with an image-only user message and has
\* appended its assistant reply.
C24_Witness ==
    /\ recv_log["A"] = <<ObjectFrame(T1, Absent, CanonUrl, Absent)>>
    /\ pc["A"] = "send_reply"
    /\ Len(threads) = 1
    /\ threads[1].title = <<"Image message">>
    /\ Len(threads[1].messages) = 2
    /\ threads[1].messages[2].role = "assistant"

\* C25: no step changes the threadId, title or createdAt of a stored
\* thread (nothing is deleted in these runs), and in every state the title
\* of a thread is the one derived from its first message.
C25_IdentityFieldsKept ==
    /\ [][\A i \in 1..Len(threads) :
            /\ i <= Len(threads')
            /\ threads'[i].threadId = threads[i].threadId
            /\ threads'[i].title = threads[i].title
            /\ threads'[i].createdAt = threads[i].createdAt
         ]_vars
    /\ [](\A i \in 1..Len(threads) :
            threads[i].title = TitleText(threads[i].messages[1].content))

\* Both connections have appended to the thread one of them created: five
\* messages, updatedAt moved on, createdAt and title as at creation.
C25_Witness ==
    /\ Len(threads) = 1
    /\ Len(threads[1].messages) = 5
    /\ acked["A"] # <<>> /\ acked["B"] # <<>>
    /\ threads[1].updatedAt > threads[1].createdAt + 1
    /\ Len(threads[1].title) = TitleLen

====
